---- MODULE Spec2Model ----
(***************************************************************************)
(* Model of postfix/reinject.py: the Postfix content-filter reinjection    *)
(* script.  One invocation reads a message from standard input, takes the  *)
(* recipient from the first line that starts with "to:", opens one TCP     *)
(* connection to 127.0.0.1:10025 and runs one hand-rolled SMTP             *)
(* transaction.                                                            *)
(*                                                                         *)
(* Text is modelled as sequences of one-character strings; a fixed piece   *)
(* of wire text that the script never inspects ("EHLO localhost",          *)
(* "noreply@localhost") is a single element.  `sent' holds one entry per   *)
(* completed sendall() call, in order.  `prior' is what the endpoint took  *)
(* from the earlier invocations of the script, one entry per invocation;   *)
(* it is no state of the script, which keeps none.                         *)
(***************************************************************************)
EXTENDS Integers, Sequences, FiniteSets, TLC

VARIABLES email, to_addr, sock, response, sent, stderr, exit_status, pc,
          net, resps, prior

vars == <<email, to_addr, sock, response, sent, stderr, exit_status, pc,
          net, resps, prior>>

-----------------------------------------------------------------------------
(* Bounds of the input space *)

MaxVal == 5

MaxRuns == 2

-----------------------------------------------------------------------------
(* Python values and string methods *)

None == <<"<None>">>

Whitespace == {" ", "\t", "\r", "\n", "\f"}

LowerChar(c) ==
    CASE c = "T" -> "t"
      [] c = "O" -> "o"
      [] c = "N" -> "n"
      [] c = "F" -> "f"
      [] c = "R" -> "r"
      [] c = "M" -> "m"
      [] c = "X" -> "x"
      [] OTHER   -> c

lower(s) == [i \in 1..Len(s) |-> LowerChar(s[i])]

(* a prefix test that looks at the first character only *)
startswith_FirstChar(s, p) == Len(s) >= 1 /\ Len(p) >= 1 /\ s[1] = p[1]

startswith(s, p) ==
    /\ Len(s) >= Len(p)
    /\ \A i \in 1..Len(p) : s[i] = p[i]

SetMin(S) == CHOOSE x \in S : \A y \in S : x <= y

SetMax(S) == CHOOSE x \in S : \A y \in S : x >= y

(* str.strip(chars): drop the leading and trailing run of characters that  *)
(* belong to chars; characters in the middle are kept.                     *)
strip_chars(s, chars) ==
    LET keep == {i \in 1..Len(s) : s[i] \notin chars}
    IN  IF keep = {} THEN <<>> ELSE SubSeq(s, SetMin(keep), SetMax(keep))

strip(s) == strip_chars(s, Whitespace)

(* str.split(sep): the pieces between the occurrences of the              *)
(* one-character sep; n occurrences give n + 1 pieces, empty ones kept.    *)
split(s, sep) ==
    LET hits   == {i \in 1..Len(s) : s[i] = sep}
        cut(k) == IF k = 0 THEN 0
                  ELSE IF k = Cardinality(hits) + 1 THEN Len(s) + 1
                  ELSE CHOOSE i \in hits : Cardinality({j \in hits : j < i}) = k - 1
    IN  [k \in 1..(Cardinality(hits) + 1) |-> SubSeq(s, cut(k - 1) + 1, cut(k) - 1)]

(* line.split(':', 1)[1]: everything after the first colon *)
after_colon(line) ==
    LET hits == {i \in 1..Len(line) : line[i] = ":"}
    IN  SubSeq(line, SetMin(hits) + 1, Len(line))

-----------------------------------------------------------------------------
(* Recipient extraction, lines 14-20 *)

is_to_line(line) == startswith(lower(line), <<"t", "o", ":">>)

(* the extraction without the whitespace strip of line 17 *)
extract_addr_NoTrim(line) == strip_chars(after_colon(line), {"<", ">"})

extract_addr(line) == strip_chars(strip(after_colon(line)), {"<", ">"})

(* the loop of lines 15-20 without its break: the last matching line wins *)
extract_to_Last(text) ==
    LET lines == split(text, "\n")
        hits  == {i \in 1..Len(lines) : is_to_line(lines[i])}
    IN  IF hits = {} THEN None ELSE extract_addr(lines[SetMax(hits)])

extract_to(text) ==
    LET lines == split(text, "\n")
        hits  == {i \in 1..Len(lines) : is_to_line(lines[i])}
    IN  IF hits = {} THEN None ELSE extract_addr(lines[SetMin(hits)])

falsy(v) == v = None \/ v = <<>>

-----------------------------------------------------------------------------
(* Wire text of the commands *)

CRLF == <<"\r", "\n">>

EhloCmd == <<"EHLO localhost">> \o CRLF

(* a sender command built from the first From line of the input *)
MailFromCmd_FromHeader ==
    LET lines == split(email, "\n")
        hits  == {i \in 1..Len(lines) :
                    startswith(lower(lines[i]), <<"f", "r", "o", "m", ":">>)}
        addr  == IF hits = {} THEN <<"None">> ELSE extract_addr(lines[SetMin(hits)])
    IN  <<"MAIL FROM:", "<">> \o addr \o <<">">> \o CRLF

MailFromCmd == <<"MAIL FROM:", "<", "noreply@localhost", ">">> \o CRLF

(* a recipient command without the angle brackets around the address *)
RcptToCmd_NoBrackets(addr) == <<"RCPT TO:">> \o addr \o CRLF

RcptToCmd(addr) == <<"RCPT TO:", "<">> \o addr \o <<">">> \o CRLF

DataCmd == <<"DATA">> \o CRLF

EndOfData == CRLF \o <<".">> \o CRLF

QuitCmd == <<"QUIT">> \o CRLF

Code250 == <<"2", "5", "0">>

(* the data go-ahead checked against the wrong code *)
Code354_As250 == <<"2", "5", "0">>

Code354 == <<"3", "5", "4">>

(* What one recv(1024) can return: a positive completion, the data         *)
(* go-ahead, a rejection, a truncated reply, and b'' (peer closed).        *)
Responses ==
    { Code250, Code354, <<"5", "5", "0">>, <<"2", "5">>, <<>> }

-----------------------------------------------------------------------------
(* Diagnostics and exceptions *)

ErrLine(what, detail) == [prefix |-> "ERROR:", what |-> what, detail |-> detail]

(* a bare `except:', which catches SystemExit as well *)
except_BaseException(exc) == TRUE

(* `except Exception' catches subclasses of Exception; SystemExit, raised  *)
(* by sys.exit(), derives from BaseException only.                         *)
except_Exception(exc) == exc \in {"OSError", "UnicodeEncodeError"}

Running == exit_status = -1

(* sys.exit(1) raised inside the try block of lines 34-72, after the lines *)
(* in `err' were written: the handler of line 70 reports it again only if  *)
(* it catches it.                                                          *)
ExitInTry(err) ==
    /\ stderr' = IF except_Exception("SystemExit")
                 THEN stderr \o err \o <<ErrLine("SMTP error", <<"1">>)>>
                 ELSE stderr \o err
    /\ exit_status' = 1
    /\ pc' = "done"

(* An exception raised by a socket call inside the try block *)
RaiseInTry(exc) ==
    /\ IF except_Exception(exc)
       THEN stderr' = Append(stderr, ErrLine("SMTP error", <<exc>>))
       ELSE stderr' = Append(stderr, [prefix |-> "Traceback", what |-> exc,
                                      detail |-> <<>>])
    /\ exit_status' = 1
    /\ pc' = "done"

-----------------------------------------------------------------------------
(* Inputs *)

Alphabet == {" ", "<", ">", "a"}

Values == UNION { [1..k -> Alphabet] : k \in 0..MaxVal }

RECURSIVE join(_)
join(lines) ==
    IF Len(lines) = 0 THEN <<>>
    ELSE IF Len(lines) = 1 THEN lines[1]
    ELSE lines[1] \o <<"\n">> \o join(Tail(lines))

ToHdr == <<"T", "o", ":">>

(* a single To line with every value over the alphabet *)
SingleLineEmails == { ToHdr \o v : v \in Values }

FromLines ==
    { <<"F", "r", "o", "m", ":", " ", "N", " ", "<", "b", ">">>,
      <<"F", "r", "o", "m", ":", "b">> }

HeadLines == { <<>> } \cup { <<f>> : f \in FromLines } \cup { << <<"X", ":", "a">> >> }

ToLineChoices ==
    { <<"T", "o", ":", " ", "N", " ", "<", "a", ">">>,
      <<"T", "O", ":", "<", "a", ">">>,
      <<"t", "o", ":", " ", "a", "\r">>,
      <<"T", "o", ":", " ">>,
      <<"T", "o", ":", "b">> }

ToParts ==
    { <<>> } \cup { <<t>> : t \in ToLineChoices }
             \cup { <<t, u>> : t \in ToLineChoices, u \in ToLineChoices }

BodyParts ==
    { <<>>,
      << <<>>, <<"h", "i">> >>,
      << <<>>, <<".">>, <<"h", "i">> >>,
      << <<"\r">>, <<".", "\r">>, <<"h", "i">> >>,
      << <<>>, <<"T", "o", ":", "a">> >> }

ComposedEmails == { join(h \o t \o b) : h \in HeadLines, t \in ToParts, b \in BodyParts }

Emails == SingleLineEmails \cup ComposedEmails

-----------------------------------------------------------------------------
(* The invocation *)

Init ==
    /\ email \in Emails
    /\ to_addr = None
    /\ sock = "none"
    /\ response = <<>>
    /\ sent = <<>>
    /\ stderr = <<>>
    /\ exit_status = -1
    /\ pc = "start"
    /\ net = "idle"
    /\ resps = <<>>
    /\ prior = <<>>

(* lines 14-24 *)
ExtractRecipient ==
    /\ pc = "start"
    /\ to_addr' = extract_to(email)
    /\ IF falsy(extract_to(email))
       THEN /\ stderr' = Append(stderr, ErrLine("No To header found", <<>>))
            /\ exit_status' = 1
            /\ pc' = "done"
       ELSE /\ pc' = "connect"
            /\ UNCHANGED <<stderr, exit_status>>
    /\ UNCHANGED <<prior, email, sock, response, sent, net, resps>>

(* lines 27-32 without the sys.exit(1) of line 32 *)
Connect_NoExit ==
    /\ pc = "connect"
    /\ \E accepted \in BOOLEAN :
         IF accepted
         THEN /\ sock' = "open"
              /\ net' = "up"
              /\ UNCHANGED stderr
         ELSE /\ sock' = "unconnected"
              /\ net' = "refused"
              /\ stderr' = Append(stderr, ErrLine("Failed to connect to 127.0.0.1:10025",
                                                  <<"ConnectionRefusedError">>))
    /\ pc' = "send_ehlo"
    /\ UNCHANGED <<prior, email, to_addr, response, sent, resps, exit_status>>

(* lines 27-32 *)
Connect ==
    /\ pc = "connect"
    /\ \E accepted \in BOOLEAN :
         IF accepted
         THEN /\ sock' = "open"
              /\ net' = "up"
              /\ pc' = "send_ehlo"
              /\ UNCHANGED <<stderr, exit_status>>
         ELSE /\ sock' = "unconnected"
              /\ net' = "refused"
              /\ stderr' = Append(stderr, ErrLine("Failed to connect to 127.0.0.1:10025",
                                                  <<"ConnectionRefusedError">>))
              /\ exit_status' = 1
              /\ pc' = "done"
    /\ UNCHANGED <<prior, email, to_addr, response, sent, resps>>

(* sock.sendall(data) inside the try block *)
SendAll(at, data, next) ==
    /\ pc = at
    /\ IF net = "reset"
       THEN /\ RaiseInTry("OSError")
            /\ UNCHANGED sent
       ELSE /\ sent' = Append(sent, data)
            /\ pc' = next
            /\ UNCHANGED <<stderr, exit_status>>
    /\ UNCHANGED <<prior, email, to_addr, sock, response, net, resps>>

(* response = sock.recv(1024); if not response.startswith(code): report, exit *)
RecvCheck(at, code, what, next) ==
    /\ pc = at
    /\ net \in {"up", "reset"}
    /\ IF net = "reset"
       THEN /\ RaiseInTry("OSError")
            /\ UNCHANGED <<response, resps>>
       ELSE \E r \in Responses :
              /\ response' = r
              /\ resps' = Append(resps, r)
              /\ IF ~startswith(r, code)
                 THEN ExitInTry(<<ErrLine(what, r)>>)
                 ELSE /\ pc' = next
                      /\ UNCHANGED <<stderr, exit_status>>
    /\ UNCHANGED <<prior, email, to_addr, sock, sent, net>>

SendEhlo == SendAll("send_ehlo", EhloCmd, "recv_ehlo")

RecvEhlo == RecvCheck("recv_ehlo", Code250, "EHLO failed", "send_mail")

SendMailFrom == SendAll("send_mail", MailFromCmd, "recv_mail")

RecvMailFrom == RecvCheck("recv_mail", Code250, "MAIL FROM failed", "send_rcpt")

SendRcptTo == SendAll("send_rcpt", RcptToCmd(to_addr), "recv_rcpt")

RecvRcptTo == RecvCheck("recv_rcpt", Code250, "RCPT TO failed", "send_data")

SendData == SendAll("send_data", DataCmd, "recv_data")

(* DATA not followed by a read: the message is sent straight after it *)
RecvData_Skip ==
    /\ pc = "recv_data"
    /\ pc' = "send_body"
    /\ UNCHANGED <<prior, email, to_addr, sock, response, sent, stderr, exit_status,
                   net, resps>>

RecvData == RecvCheck("recv_data", Code354, "DATA failed", "send_body")

NotDot(c) == c # "."

(* a message body sent with its dots removed instead of verbatim *)
SendBody_NoDots == SendAll("send_body", SelectSeq(email, NotDot), "send_eod")

SendBody == SendAll("send_body", email, "send_eod")

SendEndOfData == SendAll("send_eod", EndOfData, "recv_body")

RecvBody == RecvCheck("recv_body", Code250, "Message send failed", "send_quit")

SendQuit == SendAll("send_quit", QuitCmd, "close")

(* line 69, then main() returns and the interpreter exits with status 0 *)
Close ==
    /\ pc = "close"
    /\ sock' = "closed"
    /\ exit_status' = 0
    /\ pc' = "done"
    /\ UNCHANGED <<prior, email, to_addr, response, sent, stderr, net, resps>>

(* The endpoint's side of the connection.  The peer may reset the          *)
(* connection, or stay connected and never send another byte; the socket   *)
(* is created without a timeout, so a recv() on a silent peer has no       *)
(* step to take.                                                           *)
PeerReset ==
    /\ sock = "open"
    /\ Running
    /\ net = "up"
    /\ net' = "reset"
    /\ UNCHANGED <<prior, email, to_addr, sock, response, sent, stderr, exit_status, pc, resps>>

PeerSilent ==
    /\ sock = "open"
    /\ Running
    /\ net = "up"
    /\ net' = "silent"
    /\ UNCHANGED <<prior, email, to_addr, sock, response, sent, stderr, exit_status, pc, resps>>

ClientNext ==
    \/ ExtractRecipient
    \/ Connect
    \/ SendEhlo
    \/ RecvEhlo
    \/ SendMailFrom
    \/ RecvMailFrom
    \/ SendRcptTo
    \/ RecvRcptTo
    \/ SendData
    \/ RecvData
    \/ SendBody
    \/ SendEndOfData
    \/ RecvBody
    \/ SendQuit
    \/ Close

Next ==
    \/ ClientNext
    \/ PeerReset
    \/ PeerSilent

Spec == Init /\ [][Next]_vars

(* a second run that remembers a delivered message and skips it *)
Reinvoke_Dedup ==
    /\ pc = "done"
    /\ Len(prior) < MaxRuns - 1
    /\ prior' = Append(prior,
                       IF Len(resps) = 5 /\ startswith(resps[5], Code250)
                       THEN sent[5] ELSE None)
    /\ email' = email
    /\ to_addr' = None
    /\ sock' = "none"
    /\ response' = <<>>
    /\ sent' = <<>>
    /\ stderr' = <<>>
    /\ net' = "idle"
    /\ resps' = <<>>
    /\ IF prior'[Len(prior')] = email
       THEN exit_status' = 0 /\ pc' = "done"
       ELSE exit_status' = -1 /\ pc' = "start"

(* The mail system runs the script again on the same message: a new        *)
(* process, so every local of main() starts afresh; nothing is read from   *)
(* or written to a file, so nothing of the finished invocation is left but *)
(* what the endpoint took from it: the data it accepted with 250, if any.  *)
Reinvoke ==
    /\ pc = "done"
    /\ Len(prior) < MaxRuns - 1
    /\ prior' = Append(prior,
                       IF Len(resps) = 5 /\ startswith(resps[5], Code250)
                       THEN sent[5] ELSE None)
    /\ email' = email
    /\ to_addr' = None
    /\ sock' = "none"
    /\ response' = <<>>
    /\ sent' = <<>>
    /\ stderr' = <<>>
    /\ exit_status' = -1
    /\ pc' = "start"
    /\ net' = "idle"
    /\ resps' = <<>>

InitComposed == Init /\ email \in ComposedEmails

NextRuns ==
    \/ Next
    \/ Reinvoke

RunsSpec == InitComposed /\ [][NextRuns]_vars

TypeOK ==
    /\ exit_status \in {-1, 0, 1}
    /\ sock \in {"none", "unconnected", "open", "closed"}
    /\ net \in {"idle", "refused", "up", "reset", "silent"}
    /\ Len(resps) <= 5
    /\ Len(sent) <= 7
    /\ Len(prior) <= MaxRuns - 1

-----------------------------------------------------------------------------
(* Vocabulary of the properties: the header block of a message and the     *)
(* headers in it, stated without the script's own extraction code.         *)

Terminated == pc = "done"

IsBlankLine(line) == \A i \in 1..Len(line) : line[i] = "\r"

HeaderBlock(text) ==
    LET ls     == split(text, "\n")
        blanks == {i \in 1..Len(ls) : IsBlankLine(ls[i])}
    IN  IF blanks = {} THEN ls ELSE SubSeq(ls, 1, SetMin(blanks) - 1)

IsToHeader(line) ==
    /\ Len(line) >= 3
    /\ line[1] \in {"T", "t"}
    /\ line[2] \in {"O", "o"}
    /\ line[3] = ":"

IsFromHeader(line) ==
    /\ Len(line) >= 5
    /\ line[1] \in {"F", "f"}
    /\ line[2] \in {"R", "r"}
    /\ line[3] \in {"O", "o"}
    /\ line[4] \in {"M", "m"}
    /\ line[5] = ":"

ToHeaders(text) == SelectSeq(HeaderBlock(text), IsToHeader)

FromHeaders(text) == SelectSeq(HeaderBlock(text), IsFromHeader)

HasToHeader(text) == Len(ToHeaders(text)) > 0

HasFromHeader(text) == Len(FromHeaders(text)) > 0

(* the value of the first To header: the text after "To:" *)
ToValue(text) == LET l == ToHeaders(text)[1] IN SubSeq(l, 4, Len(l))

FromValue(text) == LET l == FromHeaders(text)[1] IN SubSeq(l, 6, Len(l))

NoBrackets(v) == \A i \in 1..Len(v) : v[i] \notin {"<", ">"}

(* t is v with its leading and trailing whitespace removed, t not empty *)
IsTrimOf(t, v) ==
    \E i, j \in 1..Len(v) :
        /\ i <= j
        /\ t = SubSeq(v, i, j)
        /\ v[i] \notin Whitespace
        /\ v[j] \notin Whitespace
        /\ \A k \in 1..Len(v) : (k < i \/ k > j) => v[k] \in Whitespace

(* v reads  Name <addr>  : a display name, then addr between the only pair *)
(* of angle brackets, then at most whitespace                              *)
IsNameAddr(v, addr) ==
    \E i, j \in 1..Len(v) :
        /\ i < j - 1
        /\ v[i] = "<"
        /\ v[j] = ">"
        /\ addr = SubSeq(v, i + 1, j - 1)
        /\ \A k \in 1..Len(addr) : addr[k] \notin ({"<", ">"} \cup Whitespace)
        /\ \E k \in 1..(i - 1) : v[k] \notin Whitespace
        /\ \A k \in 1..(i - 1) : v[k] \notin {"<", ">"}
        /\ \A k \in (j + 1)..Len(v) : v[k] \in Whitespace

(* the address of a header value: the bracketed part, else the trimmed value *)
IsAddrOf(a, v) ==
    \/ IsNameAddr(v, a)
    \/ \E i, j \in 1..Len(v) :
          /\ i < j - 1 /\ v[i] = "<" /\ v[j] = ">"
          /\ a = SubSeq(v, i + 1, j - 1) /\ NoBrackets(a)
          /\ \A k \in 1..Len(v) : (k < i \/ k > j) => v[k] \in Whitespace
    \/ (NoBrackets(v) /\ IsTrimOf(a, v))

(* the addresses addr for which v reads  Name <addr> *)
NameAddrs(v) ==
    { a \in { SubSeq(v, i, j) : i, j \in 1..Len(v) } : IsNameAddr(v, a) }

(* what a command carries between "<" and ">" CR LF *)
CmdArg(chunk) == SubSeq(chunk, 3, Len(chunk) - 3)

IsRcpt(chunk) == Len(chunk) > 0 /\ chunk[1] = "RCPT TO:"

IsMail(chunk) == Len(chunk) > 0 /\ chunk[1] = "MAIL FROM:"

WireEhlo == <<"EHLO localhost", "\r", "\n">>

WireMail(addr) == <<"MAIL FROM:", "<">> \o addr \o <<">", "\r", "\n">>

WireRcpt(addr) == <<"RCPT TO:", "<">> \o addr \o <<">", "\r", "\n">>

WireData == <<"DATA", "\r", "\n">>

WireEndOfData == <<"\r", "\n", ".", "\r", "\n">>

WireQuit == <<"QUIT", "\r", "\n">>

Begins(r, a, b, c) == Len(r) >= 3 /\ r[1] = a /\ r[2] = b /\ r[3] = c

(* the response received at checked state i is the positive one *)
PositiveAt(i, r) ==
    IF i = 4 THEN Begins(r, "3", "5", "4") ELSE Begins(r, "2", "5", "0")

(* sendall() calls completed when the response of checked state i is read *)
SendsUpTo(i) == IF i = 5 THEN 6 ELSE i

-----------------------------------------------------------------------------
(* C1: against an endpoint that accepts the connection, keeps it up and    *)
(* answers 250, 250, 250, 354, 250, the finished invocation has sent, in   *)
(* this order and each once: EHLO, MAIL FROM, RCPT TO with the extracted   *)
(* recipient, DATA, the message, the end-of-data marker and QUIT; and it   *)
(* has exited with status 0.                                               *)
C1_HappyPath ==
    ( /\ Terminated
      /\ net = "up"
      /\ Len(resps) = 5
      /\ \A i \in 1..5 : PositiveAt(i, resps[i]) )
    => /\ sent = << WireEhlo, WireMail(<<"noreply@localhost">>), WireRcpt(to_addr),
                    WireData, email, WireEndOfData, WireQuit >>
       /\ to_addr = extract_to(email)
       /\ exit_status = 0

C1_Witness ==
    /\ Terminated
    /\ net = "up"
    /\ Len(resps) = 5
    /\ \A i \in 1..5 : PositiveAt(i, resps[i])
    /\ exit_status = 0
    /\ Len(sent) = 7

(* C2: a response at one of the five checked states that does not begin    *)
(* with the expected code (250, 250, 250, 354, 250; an empty or truncated  *)
(* response included) is the last thing the invocation reads: nothing is   *)
(* sent after it, one ERROR: line is written and the exit status is 1.  A  *)
(* rejected recipient command means DATA is never sent.                    *)
C2_AbortOnMismatch ==
    \A i \in 1..Len(resps) :
        ~PositiveAt(i, resps[i])
        => /\ i = Len(resps)
           /\ Terminated
           /\ exit_status = 1
           /\ Len(stderr) = 1
           /\ stderr[1].prefix = "ERROR:"
           /\ Len(sent) = SendsUpTo(i)
           /\ \A k \in 1..Len(sent) : sent[k] # WireQuit
           /\ (i <= 3 => \A k \in 1..Len(sent) : sent[k] # WireData)

C2_Witness ==
    /\ Len(resps) = 3
    /\ ~PositiveAt(3, resps[3])
    /\ Terminated
    /\ Len(sent) = 3

(* C3: an input whose header block has no To header fails with the         *)
(* missing-recipient error, status 1, without a connection and without a   *)
(* byte sent.                                                              *)
C3_NoToHeaderFails ==
    (~HasToHeader(email) /\ pc # "start")
    => /\ Terminated
       /\ exit_status = 1
       /\ stderr = <<ErrLine("No To header found", <<>>)>>
       /\ sock = "none"
       /\ net = "idle"
       /\ sent = <<>>

(* C4: a refused connection gives the connect-failure diagnostic, exit     *)
(* status 1, and no SMTP command is ever sent.                             *)
C4_RefusedConnect ==
    net = "refused"
    => /\ Terminated
       /\ exit_status = 1
       /\ Len(stderr) = 1
       /\ stderr[1].prefix = "ERROR:"
       /\ stderr[1].what = "Failed to connect to 127.0.0.1:10025"
       /\ sent = <<>>

C4_Witness ==
    /\ net = "refused"
    /\ Terminated
    /\ HasToHeader(email)

(* C5: when the To header reads  Name <addr>, the recipient extracted and  *)
(* the recipient command carry exactly addr.                               *)
C5_BracketAddrExtracted ==
    ( /\ HasToHeader(email)
      /\ NameAddrs(ToValue(email)) # {}
      /\ pc # "start" )
    => /\ to_addr \in NameAddrs(ToValue(email))
       /\ \A k \in 1..Len(sent) : IsRcpt(sent[k]) => CmdArg(sent[k]) = to_addr

(* C6: when the To header's value has no angle brackets, the recipient is  *)
(* that value with leading and trailing whitespace removed, and the        *)
(* recipient command carries it.                                           *)
C6_BareAddrTrimmed ==
    ( /\ HasToHeader(email)
      /\ NoBrackets(ToValue(email))
      /\ \E i \in 1..Len(ToValue(email)) : ToValue(email)[i] \notin Whitespace
      /\ pc # "start" )
    => /\ IsTrimOf(to_addr, ToValue(email))
       /\ \A k \in 1..Len(sent) : IsRcpt(sent[k]) => sent[k] = WireRcpt(to_addr)

C6_Witness ==
    /\ HasToHeader(email)
    /\ NoBrackets(ToValue(email))
    /\ IsTrimOf(to_addr, ToValue(email))
    /\ to_addr # ToValue(email)
    /\ \E k \in 1..Len(sent) : IsRcpt(sent[k])

C8_DefaultSenderWithoutFrom ==
    ( /\ ~HasFromHeader(email)
      /\ HasToHeader(email)
      /\ \E i \in 1..Len(ToValue(email)) :
            ToValue(email)[i] \notin (Whitespace \cup {"<", ">"})
      /\ pc # "start" )
    => /\ (Terminated => sock # "none")
       /\ \A k \in 1..Len(stderr) : stderr[k].what # "No To header found"
       /\ (Len(sent) >= 2 => sent[2] = WireMail(<<"noreply@localhost">>))
       /\ \A k \in 1..Len(sent) : IsMail(sent[k]) => k = 2

C8_Witness ==
    /\ ~HasFromHeader(email)
    /\ HasToHeader(email)
    /\ Len(sent) >= 3
    /\ sent[2] = WireMail(<<"noreply@localhost">>)

(* C9: a connected invocation never blocks for good: until it has exited  *)
(* it always has a step to take, also when the endpoint has accepted the   *)
(* connection and then stays silent (the read would time out and fail).    *)
C9_NeverBlocksForever == (sock = "open" /\ ~Terminated) => ENABLED ClientNext

(* C10: a finished invocation has exit status 0 and has written no line,   *)
(* or has exit status 1 and has written exactly one line, an ERROR: line;  *)
(* nothing is written before it finishes.                                  *)
C10_OneOutcome ==
    /\ Terminated
       => \/ exit_status = 0 /\ stderr = <<>>
          \/ exit_status = 1 /\ Len(stderr) = 1 /\ stderr[1].prefix = "ERROR:"
    /\ ~Terminated => (exit_status = -1 /\ stderr = <<>>)

C10_Witness ==
    /\ Terminated
    /\ exit_status = 1
    /\ Len(resps) >= 1
    /\ ~PositiveAt(Len(resps), resps[Len(resps)])
    /\ Len(stderr) = 1

-----------------------------------------------------------------------------
(* Vocabulary of the later properties *)

FullTransaction ==
    << WireEhlo, WireMail(<<"noreply@localhost">>), WireRcpt(to_addr),
       WireData, email, WireEndOfData, WireQuit >>

AllPositive == Len(resps) = 5 /\ \A i \in 1..5 : PositiveAt(i, resps[i])

(* commands sent so far: every sendall() but the one of the message, which *)
(* forms one command with the end-of-data marker that follows it           *)
CmdCount == IF Len(sent) >= 5 THEN Len(sent) - 1 ELSE Len(sent)

SendPoints ==
    {"send_ehlo", "send_mail", "send_rcpt", "send_data", "send_body", "send_eod",
     "send_quit"}

RecvPoints == {"recv_ehlo", "recv_mail", "recv_rcpt", "recv_data", "recv_body"}

(* A line of the SMTP data stream that consists solely of a dot: a dot at  *)
(* the start of the data or after CR LF, followed by CR LF.  An endpoint   *)
(* that conforms to the protocol ends the data at the first such line.     *)
DotLineAt(text, p) ==
    /\ text[p] = "."
    /\ (p = 1 \/ (p >= 3 /\ text[p - 2] = "\r" /\ text[p - 1] = "\n"))
    /\ p + 2 <= Len(text)
    /\ text[p + 1] = "\r"
    /\ text[p + 2] = "\n"

DotLines(text) == {p \in 1..Len(text) : DotLineAt(text, p)}

EndOfDataSeenAt(stream) == SetMin(DotLines(stream))

AllLines(text) == split(text, "\n")

BodyHasToLine(text) ==
    \E i \in (Len(HeaderBlock(text)) + 1)..Len(AllLines(text)) :
        IsToHeader(AllLines(text)[i])

(* the lines of the whole input, header block or not, that start with to: *)
ToLines(text) == SelectSeq(AllLines(text), IsToHeader)

FirstToLineValue(text) == LET l == ToLines(text)[1] IN SubSeq(l, 4, Len(l))

(* nothing is left of v once the whitespace around it and then the angle   *)
(* brackets around the rest are removed                                    *)
BlankValue(v) ==
    /\ \A i \in 1..Len(v) : v[i] \in Whitespace \cup {"<", ">"}
    /\ \A i, j, k \in 1..Len(v) :
         (i < j /\ j < k) => ~(v[i] \notin Whitespace /\ v[j] \in Whitespace
                                /\ v[k] \notin Whitespace)

MissingRecipientOutcome ==
    /\ Terminated
    /\ exit_status = 1
    /\ stderr = <<ErrLine("No To header found", <<>>)>>
    /\ sock = "none"
    /\ net = "idle"
    /\ sent = <<>>

(* C11: an invocation that has established its connection has closed it    *)
(* when it ends, on the success path and on every failure path.            *)
C11_ClosedOnEveryPath ==
    (Terminated /\ net \in {"up", "reset", "silent"}) => sock = "closed"

(* C12: a later invocation on the same message starts with no trace of the *)
(* earlier one and runs a full transaction of its own: against an endpoint *)
(* that answers positively it sends the whole command sequence again and   *)
(* exits 0, so the endpoint that accepted the message before has now       *)
(* received it twice; and it never reports success without having done so. *)
C12_IndependentRuns ==
    Len(prior) >= 1
    => /\ pc = "start" => (to_addr = None /\ sent = <<>> /\ stderr = <<>>
                           /\ sock = "none" /\ resps = <<>>)
       /\ (Terminated /\ net = "up" /\ AllPositive)
          => /\ sent = FullTransaction
             /\ exit_status = 0
             /\ \A n \in 1..Len(prior) : prior[n] \in {None, sent[5]}
       /\ (Terminated /\ exit_status = 0) => (AllPositive /\ sent = FullTransaction)

C12_Witness ==
    /\ Len(prior) = 1
    /\ prior[1] = email
    /\ Terminated
    /\ exit_status = 0
    /\ AllPositive
    /\ sent[5] = email

(* C13 as stated: whenever the client is about to send, or has left the   *)
(* Quit state, it has read exactly one response for every command sent.    *)
C13_OneResponsePerCommand ==
    pc \in SendPoints \cup {"close"} => Len(resps) = CmdCount

(* C13 amended: no pipelining.  Whenever the client is about to send, every *)
(* command sent so far has had its response read, one response each; while *)
(* it waits, exactly one command is unanswered.  The termination command   *)
(* is the exception: it is sent and the connection closed with no          *)
(* response read for it.                                                   *)
C13_NoPipelining ==
    /\ pc \in SendPoints => Len(resps) = CmdCount
    /\ pc \in RecvPoints => Len(resps) = CmdCount - 1
    /\ pc = "close" => /\ sent[Len(sent)] = WireQuit
                       /\ CmdCount = 6
                       /\ Len(resps) = 5

C13_Witness ==
    /\ pc = "close"
    /\ Len(resps) = 5
    /\ Len(sent) = 7

(* C14: once the endpoint has answered 250 to the data body, the           *)
(* invocation ends with exit status 0 whatever happens to the termination  *)
(* command.                                                                *)
C14_SuccessAfterAccept ==
    (Terminated /\ Len(resps) = 5 /\ PositiveAt(5, resps[5])) => exit_status = 0

(* C15: what is sent between the 354 response and the end-of-data marker   *)
(* is the input message, character for character; so when the message has  *)
(* a line consisting solely of a dot, a conforming endpoint finds the end  *)
(* of data at the first such line, inside the message.                     *)
C15_VerbatimNoDotStuffing ==
    Len(sent) >= 6
    => /\ sent[5] = email
       /\ sent[6] = WireEndOfData
       /\ Len(resps) >= 4
       /\ DotLines(email) # {}
          => /\ EndOfDataSeenAt(sent[5] \o sent[6]) = SetMin(DotLines(email))
             /\ EndOfDataSeenAt(sent[5] \o sent[6]) + 2 <= Len(email)

C15_Witness ==
    /\ Len(sent) >= 6
    /\ DotLines(email) # {}
    /\ EndOfDataSeenAt(sent[5] \o sent[6]) + 2 < Len(email)

(* C16: with no To header in the header block, a body line that begins     *)
(* with To: does not supply the recipient: the invocation fails with the   *)
(* missing-recipient error and sends nothing.                              *)
C16_BodyToLineIgnored ==
    (~HasToHeader(email) /\ BodyHasToLine(email) /\ pc # "start")
    => MissingRecipientOutcome

(* C17: no false success.  Exit status 0 means the five checked responses  *)
(* were 250, 250, 250, 354, 250 and the whole message and the end-of-data  *)
(* marker were sent; and the message is on the wire only after the 354     *)
(* response to DATA was read.                                              *)
C17_NoFalseSuccess ==
    /\ (Terminated /\ exit_status = 0)
       => /\ AllPositive
          /\ Len(sent) = 7
          /\ sent[5] = email
          /\ sent[6] = WireEndOfData
    /\ Len(sent) >= 5
       => /\ Len(resps) >= 4
          /\ PositiveAt(4, resps[4])
          /\ sent[4] = WireData
    /\ \A k \in 1..Len(sent) : (k # 5 /\ Len(resps) < 4) => sent[k] # email

C17_Witness ==
    /\ Terminated
    /\ exit_status = 0
    /\ sent[5] = email
    /\ PositiveAt(4, resps[4])

(* C18: only the first line of the input that starts with to: counts.  If  *)
(* nothing is left of its value after trimming, the invocation fails with  *)
(* the missing-recipient error and opens no connection, whatever a later   *)
(* To line holds; otherwise the recipient command carries the address of   *)
(* that first line, never that of a later one.                             *)
C18_FirstToLineOnly ==
    (Len(ToLines(email)) >= 1 /\ pc # "start")
    => IF BlankValue(FirstToLineValue(email))
       THEN MissingRecipientOutcome
       ELSE /\ to_addr = extract_addr(ToLines(email)[1])
            /\ ~MissingRecipientOutcome
            /\ \A k \in 1..Len(sent) : IsRcpt(sent[k])
                  => CmdArg(sent[k]) = extract_addr(ToLines(email)[1])

C18_Witness ==
    /\ Len(ToLines(email)) >= 2
    /\ BlankValue(FirstToLineValue(email))
    /\ ~BlankValue(LET l == ToLines(email)[2] IN SubSeq(l, 4, Len(l)))
    /\ MissingRecipientOutcome

====
